---------------------------- MODULE Spec2Model ----------------------------
(***************************************************************************)
(* Gaussian-process regression lab (lab_week2-public): the hyperparameter  *)
(* training loop, the component calls (kernel, sampler, predictor,         *)
(* marginal likelihood) and the grid search.                               *)
(*                                                                         *)
(* Numbers.  Hyperparameters, learning rates and gradients are integers,   *)
(* on which p + learning_rate * g is exact.  In log-transformed mode the   *)
(* optimised quantity is psi = log(theta); the model counts psi in units   *)
(* of log 2, so theta = 2^psi, held exactly as a fraction <<num, den>>.    *)
(***************************************************************************)
EXTENDS Integers, Sequences, FiniteSets, TLC

VARIABLES
    pc,             \* optimizer: "Initialized", "Iterating", "Exhausted", "Aborted"
    transformed,    \* optimizer: TRUE = log-transformed space, FALSE = raw space
    learning_rate,  \* optimizer: the step size eta
    params,         \* optimizer: the mapping the loop updates (theta, or psi when transformed)
    marginals,      \* optimizer: the list the loop appends to
    iteration,      \* optimizer: number of loop bodies completed
    error,          \* optimizer: the exception that left the loop, or "none"
    rng,            \* calls: the process-wide np.random state
    last,           \* calls: the call made last, with what it returned or raised
    held,           \* calls: an earlier call whose result the caller still holds
    surface,        \* grid: the log marginal likelihood of the dataset at each grid cell
    marginal_ll,    \* grid: the table being filled
    inflight,       \* grid: cells evaluated whose result is not yet in the table
    best,           \* grid: the selected index pair
    grid_pc         \* grid: "filling", "filled", "selected", "aborted"

optvars == <<pc, transformed, learning_rate, params, marginals, iteration, error>>
callvars == <<rng, last, held>>
gridvars == <<surface, marginal_ll, inflight, best, grid_pc>>
vars == <<optvars, callvars, gridvars>>

--------------------------------------------------------------------------
(* Bounds *)

Budget == 3          \* iterations of the training loop (2000 in the notebook)
MaxRate == 2         \* learning rates 0..MaxRate
MaxGrad == 1         \* gradient components -MaxGrad, 0, MaxGrad
NumLengthscales == 2 \* grid rows, len(lengthscales) (51 in the notebook)

Keys == {"lengthscale", "variance"}
InitialValues == {1, 2}
LearningRates == 0..MaxRate
GradientComponents == {-MaxGrad, 0, MaxGrad}
Gradients == [Keys -> GradientComponents]
Values == {0, 1}     \* marginal-likelihood values the loop records

--------------------------------------------------------------------------
(* Arithmetic helpers *)

RECURSIVE Pow2(_)
Pow2(n) == IF n <= 0 THEN 1 ELSE 2 * Pow2(n - 1)

\* log2 of the initial values (exact on powers of two)
RECURSIVE Log2(_)
Log2(x) == IF x <= 1 THEN 0 ELSE 1 + Log2(x \div 2)

\* theta = exp(psi), psi in units of log 2, as an exact fraction <<num, den>>
Exp(psi) == IF psi >= 0 THEN <<Pow2(psi), 1>> ELSE <<1, Pow2(-psi)>>

--------------------------------------------------------------------------
(* Cholesky factorization of a Gram matrix, with the one jittered retry *)

JitterDivisor == 2   \* jitter = average diagonal value / JitterDivisor

GramEntries == 0..3
\* symmetric n x n matrices (n <= 2) as sequences of rows
Grams(n) ==
    IF n = 0 THEN {<<>>}
    ELSE IF n = 1 THEN {<<<<a>>>> : a \in GramEntries}
    ELSE {<<<<a, b>>, <<b, c>>>> : a \in GramEntries, b \in GramEntries, c \in GramEntries}

Trace(K) == IF Len(K) = 0 THEN 0
            ELSE IF Len(K) = 1 THEN K[1][1] ELSE K[1][1] + K[2][2]

\* Sylvester's criterion: the factorization succeeds iff every leading
\* principal minor is strictly positive
IsPositiveDefinite(K) ==
    IF Len(K) = 0 THEN TRUE
    ELSE IF Len(K) = 1 THEN K[1][1] > 0
    ELSE K[1][1] > 0 /\ K[1][1] * K[2][2] - K[1][2] * K[2][1] > 0

Jitter(K) == IF Len(K) = 0 THEN 0 ELSE (Trace(K) \div Len(K)) \div JitterDivisor

AddJitter(K) ==
    [i \in 1..Len(K) |-> [j \in 1..Len(K) |->
        IF i = j THEN K[i][j] + Jitter(K) ELSE K[i][j]]]

\* the retry left out: a failed factorization is reported at once
factorize_NoRetry(K) ==
    IF IsPositiveDefinite(K)
    THEN [ok |-> TRUE, attempts |-> 1, factored |-> K]
    ELSE [ok |-> FALSE, attempts |-> 1, factored |-> <<>>]

\* factorize with the retry policy: one attempt, then exactly one retry on
\* the jittered matrix, then NumericalError
factorize(K) ==
    IF IsPositiveDefinite(K)
    THEN [ok |-> TRUE, attempts |-> 1, factored |-> K]
    ELSE IF IsPositiveDefinite(AddJitter(K))
    THEN [ok |-> TRUE, attempts |-> 2, factored |-> AddJitter(K)]
    ELSE [ok |-> FALSE, attempts |-> 2, factored |-> <<>>]

--------------------------------------------------------------------------
(* Floating-point arithmetic and the pairwise squared distances.  A float is
   an integer here; the result of every operation is rounded to MantissaBits
   significant bits, ties to even, as the array arithmetic of cdist does. *)

MantissaBits == 3    \* significant bits of a float (24 in float32)

Abs(x) == IF x < 0 THEN -x ELSE x

RECURSIVE BitLen(_)
BitLen(x) == IF x <= 0 THEN 0 ELSE 1 + BitLen(x \div 2)

\* round to nearest representable value, ties to even
fl(x) ==
    LET a == Abs(x)
        e == BitLen(a) - MantissaBits
    IN  IF e <= 0 THEN x
        ELSE LET u == Pow2(e)
                 q == a \div u
                 r == a % u
                 m == IF 2 * r > u \/ (2 * r = u /\ q % 2 = 1)
                      THEN (q + 1) * u ELSE q * u
             IN  IF x < 0 THEN -m ELSE m

\* (P * Q).sum(axis=1) for one row of each: the products are rounded and
\* added up from the first coordinate on
RECURSIVE dot(_, _, _)
dot(p, q, k) ==
    IF k = 0 THEN 0 ELSE fl(dot(p, q, k - 1) + fl(p[k] * q[k]))

\* the squared distances written without the expansion: the sum of the
\* squared coordinate differences
RECURSIVE SquaredDifferences(_, _, _)
SquaredDifferences(p, q, k) ==
    IF k = 0 THEN 0
    ELSE SquaredDifferences(p, q, k - 1) + (p[k] - q[k]) * (p[k] - q[k])

\* the second term paired with the wrong point
cdist_Transposed(A, B) ==
    [i \in 1..Len(A) |-> [j \in 1..Len(B) |->
        LET A_dots == dot(A[i], A[i], Len(A[i]))
            B_dots == dot(B[j], B[j], Len(B[j]))
        IN  fl(fl(A_dots + A_dots) - 2 * dot(A[i], B[j], Len(A[i])))]]

\* the cross term taken once instead of twice
cdist_SingleCross(A, B) ==
    [i \in 1..Len(A) |-> [j \in 1..Len(B) |->
        LET A_dots == dot(A[i], A[i], Len(A[i]))
            B_dots == dot(B[j], B[j], Len(B[j]))
        IN  fl(fl(A_dots + B_dots) - dot(A[i], B[j], Len(A[i])))]]

\* cdist(A, B): D_squared = A_dots + B_dots - 2 * A.dot(B.T), an M x N matrix
cdist(A, B) ==
    [i \in 1..Len(A) |-> [j \in 1..Len(B) |->
        LET A_dots == dot(A[i], A[i], Len(A[i]))
            B_dots == dot(B[j], B[j], Len(B[j]))
        IN  fl(fl(A_dots + B_dots) - 2 * dot(A[i], B[j], Len(A[i])))]]

\* a sequence of scalars as the (N, 1) array the notebook works with
column(X) == [i \in 1..Len(X) |-> <<X[i]>>]

ExpRange == 6        \* exp(-x) underflows to zero for x > ExpRange (in units of log 2)

\* |d| / (2 * lengthscale ** 2) cut to a whole number, for l = <<num, den>>
Exponent(d, l) ==
    IF l[1] = 0 THEN ExpRange + 1     \* division by zero: the quotient is infinite
    ELSE (Abs(d) * l[2] * l[2]) \div (2 * l[1] * l[1])

\* exp(-x) as a factor <<num, den>>, x in units of log 2: zero when it
\* underflows, largest at the other end of the range
exp(x) ==
    IF x >= 0 THEN (IF x > ExpRange THEN <<0, 1>> ELSE <<1, Pow2(x)>>)
    ELSE <<Pow2(IF -x > ExpRange THEN ExpRange ELSE -x), 1>>

\* variance * exp(-cdist(X1, X2) / (2 * lengthscale ** 2)), entry by entry;
\* hyperparameters and entries are fractions <<num, den>>
rbf_values(theta, X1, X2) ==
    LET D == cdist(X1, X2)
        l == theta.lengthscale
        v == theta.variance
    IN  [i \in 1..Len(X1) |-> [j \in 1..Len(X2) |->
            LET k == Exponent(D[i][j], l)
                f == exp(IF D[i][j] < 0 THEN -k ELSE k)
            IN  <<v[1] * f[1], v[2] * f[2]>>]]

\* arithmetic on fractions <<num, den>>, den > 0
FAdd(p, q) == <<p[1] * q[2] + q[1] * p[2], p[2] * q[2]>>
FSub(p, q) == <<p[1] * q[2] - q[1] * p[2], p[2] * q[2]>>
FMul(p, q) == <<p[1] * q[1], p[2] * q[2]>>
FLess(p, q) == p[1] * q[2] < q[1] * p[2]
Zero == <<0, 1>>

sn2 == <<1, 100>>    \* the noise variance, sn2=0.01

\* K_y = K + sn2 * I on the point set X
K_y(theta, X) ==
    LET K == rbf_values(theta, X, X) IN
    [i \in 1..Len(X) |-> [j \in 1..Len(X) |->
        IF i = j THEN FAdd(K[i][j], sn2) ELSE K[i][j]]]

--------------------------------------------------------------------------
(* Hyperparameter validation and the marginal likelihood *)

NoResult == <<"no result">>
Errors == {"DimensionMismatchError", "ConfigurationError", "NumericalError"}

\* a value equal to zero let through
Positive_OrZero(q) == q[1] >= 0 /\ q[2] > 0

\* a fraction <<num, den>> with den > 0 is strictly positive iff num > 0
Positive(q) == q[1] > 0 /\ q[2] > 0

AllPositive(theta) == \A k \in DOMAIN theta : Positive(theta[k])

\* what a call hands back: the error raised ("none" if it returned), the
\* factorization attempts and kernel evaluations it made, and its result
Failed(e, n) ==
    [err |-> e, attempts |-> n,
     kernels |-> IF e = "DimensionMismatchError" THEN 0 ELSE 1,
     result |-> NoResult]

Returned(n, k, r) == [err |-> "none", attempts |-> n, kernels |-> k, result |-> r]

\* lengthscale = params["lengthscale"], variance = params["variance"]: what
\* the kernel raises on reading its hyperparameters, "none" if they are valid
rbf_check(theta) == IF ~AllPositive(theta) THEN "ConfigurationError" ELSE "none"

\* rbf_kernel(params, X1, X2): the kernel reads the hyperparameters and
\* rejects a non-positive one; X1 and X2 are sequences of scalars
rbf_kernel(theta, X1, X2) ==
    IF rbf_check(theta) # "none" THEN Failed(rbf_check(theta), 0)
    ELSE Returned(0, 1, rbf_values(theta, column(X1), column(X2)))

\* the hyperparameters validated before the target length is looked at
Precheck_KernelFirst(theta, X, y) ==
    IF rbf_check(theta) # "none" THEN "ConfigurationError"
    ELSE IF Len(y) # Len(X) THEN "DimensionMismatchError"
    ELSE "none"

\* what predict and log_marginal_likelihood do before factorizing: the
\* dataset is checked at entry, then the kernel is evaluated
Precheck(theta, X, y) ==
    IF Len(y) # Len(X) THEN "DimensionMismatchError"
    ELSE IF rbf_check(theta) # "none" THEN "ConfigurationError"
    ELSE "none"

\* log_marginal_likelihood(hyperparameters, train_X, train_y); K is the Gram
\* matrix kernel(X, X) + noise_variance * I of these inputs
marginal_likelihood(theta, X, y, K) ==
    LET e == Precheck(theta, X, y) IN
    IF e # "none" THEN Failed(e, 0)
    ELSE LET f == factorize(K) IN
         IF ~f.ok THEN Failed("NumericalError", f.attempts)
         ELSE Returned(f.attempts, 1, <<"lml", theta, X, y, f.factored>>)

\* determinant and adjugate of an n x n matrix, n <= 2: inverse = adjugate / det
Det(M) ==
    IF Len(M) = 0 THEN 1
    ELSE IF Len(M) = 1 THEN M[1][1]
    ELSE M[1][1] * M[2][2] - M[1][2] * M[2][1]

Adj(M) ==
    IF Len(M) = 0 THEN <<>>
    ELSE IF Len(M) = 1 THEN <<<<1>>>>
    ELSE <<<<M[2][2], -M[1][2]>>, <<-M[2][1], M[1][1]>>>>

RECURSIVE FSum(_, _)
FSum(terms, k) == IF k = 0 THEN Zero ELSE FAdd(FSum(terms, k - 1), terms[k])

\* u . M . w for vectors of fractions u, w and an integer matrix M
Bilinear(u, M, w) ==
    FSum([a \in 1..Len(M) |->
            FSum([b \in 1..Len(M) |-> FMul(u[a], FMul(<<M[a][b], 1>>, w[b]))], Len(M))],
         Len(M))

\* f_mean = k(Xt, X) [k(X, X) + sn2 I]^-1 y, with the factored matrix F
f_mean(Ks, F, y) ==
    [i \in 1..Len(Ks) |->
        FMul(Bilinear(Ks[i], Adj(F), [b \in 1..Len(y) |-> <<y[b], 1>>]), <<1, Det(F)>>)]

\* the noise variance added on the diagonal: the covariance of y, not of f
f_cov_WithNoise(Kss, Ks, F) ==
    [i \in 1..Len(Kss) |-> [j \in 1..Len(Kss) |->
        LET c == FSub(Kss[i][j], FMul(Bilinear(Ks[i], Adj(F), Ks[j]), <<1, Det(F)>>))
        IN  IF i = j THEN FAdd(c, sn2) ELSE c]]

\* f_cov = k(Xt, Xt) - k(Xt, X) [k(X, X) + sn2 I]^-1 k(Xt, X)^T
f_cov(Kss, Ks, F) ==
    [i \in 1..Len(Kss) |-> [j \in 1..Len(Kss) |->
        FSub(Kss[i][j], FMul(Bilinear(Ks[i], Adj(F), Ks[j]), <<1, Det(F)>>))]]

Epsilon == <<1, 2>>  \* the small epsilon below which a negative variance is rounding

TooNegative(q) == FLess(q, Zero) /\ ~FLess(<<-q[1], q[2]>>, Epsilon)

\* every negative variance set to zero, however large
clamp_Always(cov) ==
    [ok |-> TRUE,
     cov |-> [i \in 1..Len(cov) |-> [j \in 1..Len(cov) |->
                IF i = j /\ FLess(cov[i][i], Zero) THEN Zero ELSE cov[i][j]]]]

\* the diagonal of the covariance made non-negative: a negative entry below
\* epsilon in magnitude becomes zero, a larger one is a numerical failure
clamp(cov) ==
    [ok |-> \A i \in 1..Len(cov) : ~TooNegative(cov[i][i]),
     cov |-> [i \in 1..Len(cov) |-> [j \in 1..Len(cov) |->
                IF i = j /\ FLess(cov[i][i], Zero) THEN Zero ELSE cov[i][j]]]]

\* predict(hyperparameters, train_X, train_y, query_X): kernel(X, X),
\* kernel(Xt, X) and kernel(Xt, Xt) are evaluated, K is factorized once
predict_f_posterior(theta, X, y, Xt, K) ==
    LET e == Precheck(theta, X, y) IN
    IF e # "none" THEN Failed(e, 0)
    ELSE LET f == factorize(K) IN
         IF ~f.ok THEN Failed("NumericalError", f.attempts)
         ELSE LET Ks == rbf_values(theta, column(Xt), column(X))
                  Kss == rbf_values(theta, column(Xt), column(Xt))
                  c == clamp(f_cov(Kss, Ks, f.factored))
              IN  IF ~c.ok THEN Failed("NumericalError", f.attempts)
                  ELSE Returned(f.attempts, 3,
                                <<"posterior", f_mean(Ks, f.factored, y), c.cov, f.factored>>)

--------------------------------------------------------------------------
(* The training loop *)

TrainX == <<0, 1>>   \* the optimizer's training inputs (X of make_dataset, shortened)
TrainY == <<0, 0>>   \* its training targets, one for each input
TrainN == Len(TrainX)

\* the exponential left out: the ascent acts on theta itself
Theta_NoExp(t, p) == [k \in DOMAIN p |-> <<p[k], 1>>]

\* the hyperparameters the likelihood is evaluated at: theta = params in raw
\* space, theta = exp(psi) in log-transformed space
Theta(t, p) == [k \in DOMAIN p |-> IF t THEN Exp(p[k]) ELSE <<p[k], 1>>]

\* the step perturbed by whatever the process-wide random state holds
gradient_update_Stateful(p, gradients, rate) ==
    [k \in DOMAIN p |-> p[k] + rate * gradients[k] + rng]

\* the step projected back into the positive range
gradient_update_Clipped(p, gradients, rate) ==
    [k \in DOMAIN p |->
        IF p[k] + rate * gradients[k] <= 0 THEN 1 ELSE p[k] + rate * gradients[k]]

\* descent instead of ascent
gradient_update_Descent(p, gradients, rate) ==
    [k \in DOMAIN p |-> p[k] - rate * gradients[k]]

\* jax.tree_map(lambda p, g: p + learning_rate * g, params, gradients)
gradient_update(p, gradients, rate) ==
    [k \in DOMAIN p |-> p[k] + rate * gradients[k]]

\* the loop stopping one pass early
range_has_next_short(i) == i < Budget - 1

\* for _ in range(Budget)
range_has_next(i) == i < Budget

\* the value put in front instead of appended
Record_Prepend(trace, value) == <<[value |-> value]>> \o trace

\* marginals.append(value)
Record(trace, value) == Append(trace, [value |-> value])

\* the failing pass caught and skipped, the loop going on
Raise_Skip(e) ==
    /\ error' = e
    /\ pc' = "Iterating"
    /\ iteration' = iteration + 1
    /\ UNCHANGED <<params, marginals>>

\* an exception raised in the loop body leaves the loop
Raise(e) ==
    /\ error' = e
    /\ pc' = "Aborted"
    /\ UNCHANGED <<params, marginals, iteration>>

\* the Gram matrices kernel(X, X) + sn2 * I can be on the training set: an
\* RBF Gram matrix has one value on the whole diagonal and no entry above it
TrainGrams ==
    {K \in Grams(TrainN) : K[1][1] = K[2][2] /\ K[1][2] <= K[1][1]}

\* value = marginal_likelihood(params, ...) on the training set: what the
\* evaluation can return or raise, over the Gram matrices the kernel can give
Outcomes(t, p) ==
    {marginal_likelihood(Theta(t, p), TrainX, TrainY, K).err : K \in TrainGrams}

\* the hyperparameters evaluated after the update instead of before it
EvaluatedAt_AfterUpdate(p, updated) == updated

\* value = ... and gradients = ... stand before params = ... in the loop
\* body: both are evaluated at the mapping params is bound to when the pass
\* begins, not at the updated one
EvaluatedAt(p, updated) == p

\* what a pass evaluated: where, and the value and gradients it got (or the
\* error raised)
Evaluation(p, e, v, g) ==
    [op |-> "evaluate", at |-> p, err |-> e, value |-> v, gradients |-> g]

\* one pass of the loop body: value, gradients, params = gradient_update(...),
\* marginals.append(value)
TrainIter ==
    /\ pc \in {"Initialized", "Iterating"}
    /\ range_has_next(iteration)
    /\ \/ \E e \in Errors :
              /\ e \in Outcomes(transformed, params)
              /\ Raise(e)
              /\ last' = Evaluation(params, e, NoResult, NoResult)
       \/ /\ "none" \in Outcomes(transformed, params)
          /\ \E g \in Gradients, v \in Values :
              /\ LET updated == gradient_update(params, g, learning_rate) IN
                 /\ last' = Evaluation(EvaluatedAt(params, updated), "none", v, g)
                 /\ params' = updated
              /\ marginals' = Record(marginals, v)
              /\ iteration' = iteration + 1
              /\ pc' = "Iterating"
              /\ UNCHANGED error
    /\ UNCHANGED <<transformed, learning_rate, rng, held, gridvars>>

LoopExit ==
    /\ pc \in {"Initialized", "Iterating"}
    /\ ~range_has_next(iteration)
    /\ pc' = "Exhausted"
    /\ UNCHANGED <<transformed, learning_rate, params, marginals, iteration, error>>
    /\ UNCHANGED <<callvars, gridvars>>

IdleCalls == /\ rng = 0 /\ last = <<>> /\ held = <<>>
IdleGrid ==
    /\ surface = <<>> /\ marginal_ll = <<>> /\ inflight = {}
    /\ best = <<>> /\ grid_pc = "idle"

Init ==
    /\ pc = "Initialized"
    /\ transformed \in BOOLEAN
    /\ learning_rate \in LearningRates
    /\ \E theta0 \in [Keys -> InitialValues] :
         params = IF transformed THEN [k \in Keys |-> Log2(theta0[k])] ELSE theta0
    /\ marginals = <<>>
    /\ iteration = 0
    /\ error = "none"
    /\ IdleCalls
    /\ IdleGrid

Next == TrainIter \/ LoopExit

Spec == Init /\ [][Next]_vars

--------------------------------------------------------------------------
(* The process-wide random state (np.random), as a small congruential
   generator: a draw advances the state and returns it *)

RngModulus == 4
RngMultiplier == 5
RngIncrement == 1

np_random_seed(k) == k % RngModulus

Advance(state) == (RngMultiplier * state + RngIncrement) % RngModulus

RECURSIVE AdvanceBy(_, _)
AdvanceBy(state, k) == IF k = 0 THEN state ELSE AdvanceBy(Advance(state), k - 1)

\* the k-th draw made from a state
Draw(state, k) == AdvanceBy(state, k)

\* np.random.multivariate_normal(mean, cov, N): an N x m matrix made of the
\* next N * m draws of the process-wide state
multivariate_normal(m, N, state) ==
    [i \in 1..N |-> [j \in 1..m |-> Draw(state, (i - 1) * m + j)]]

\* the samples the caller still holds from an earlier call handed out again
sample_f_prior_Cached(theta, Xt, N, state) ==
    LET k == rbf_kernel(theta, Xt, Xt) IN
    IF k.err # "none" THEN k
    ELSE IF held.op = "sample" /\ held.out.err = "none" THEN held.out
    ELSE Returned(0, 1, [samples |-> multivariate_normal(Len(Xt), N, state),
                        mean |-> [j \in 1..Len(Xt) |-> 0],
                        cov |-> k.result])

\* sample_f_prior(params, kernel_fn, Xt, N): zero mean, cov = kernel(Xt, Xt),
\* samples drawn with np.random.multivariate_normal
sample_f_prior(theta, Xt, N, state) ==
    LET k == rbf_kernel(theta, Xt, Xt) IN
    IF k.err # "none" THEN k
    ELSE Returned(0, 1, [samples |-> multivariate_normal(Len(Xt), N, state),
                        mean |-> [j \in 1..Len(Xt) |-> 0],
                        cov |-> k.result])

--------------------------------------------------------------------------
(* Calls made from the notebook, one at a time *)

\* hyperparameter mappings handed to the components: valid, a zero
\* lengthscale, a negative variance
CallParams ==
    {[lengthscale |-> 1, variance |-> 1],
     [lengthscale |-> 0, variance |-> 1],
     [lengthscale |-> 1, variance |-> -1]}

PointSets == {<<>>, <<0, 1>>}             \* one-dimensional training sets
QuerySets == {<<0>>, <<0, 1>>}
Targets(k) == [i \in 1..k |-> 0]
\* target sequences offered with a point set: the right length, one too many
TargetsFor(X) == {Targets(Len(X)), Targets(Len(X) + 1)}

\* Gram matrices offered for n training points: positive definite, positive
\* definite once jittered, not positive definite even when jittered
CallGrams(n) ==
    IF n = 0 THEN {<<>>}
    ELSE IF n = 1 THEN {<<<<1>>>>, <<<<0>>>>}
    ELSE {<<<<2, 1>>, <<1, 2>>>>, <<<<2, 2>>, <<2, 2>>>>, <<<<1, 1>>, <<1, 1>>>>}

SampleCounts == {1, 2}
Seeds == {0, 14, 3424121}
StepGradients == {[lengthscale |-> 1, variance |-> -1]}
StepRates == {1, 2}

NoCall == [op |-> "none", args |-> <<>>, state |-> 0,
           out |-> Returned(0, 0, NoResult)]

\* the record of a call: what was called, with which arguments, the random
\* state it read (0 when it reads none) and what it handed back
Call(op, args, state, out) == [op |-> op, args |-> args, state |-> state, out |-> out]

KernelCall ==
    /\ last = NoCall
    /\ \E p \in CallParams, X1 \in QuerySets, X2 \in QuerySets :
         last' = Call("kernel", <<p, X1, X2>>, 0, rbf_kernel(Theta(FALSE, p), X1, X2))
    /\ UNCHANGED <<rng, held, optvars, gridvars>>

PredictCall ==
    /\ last = NoCall
    /\ \E p \in CallParams, X \in PointSets, Xt \in {<<0>>} :
         \E y \in TargetsFor(X), K \in CallGrams(Len(X)) :
            last' = Call("predict", <<p, X, y, Xt, K>>, 0,
                         predict_f_posterior(Theta(FALSE, p), X, y, Xt, K))
    /\ UNCHANGED <<rng, held, optvars, gridvars>>

LikelihoodCall ==
    /\ last = NoCall
    /\ \E p \in CallParams, X \in PointSets :
         \E y \in TargetsFor(X), K \in CallGrams(Len(X)) :
            last' = Call("likelihood", <<p, X, y, K>>, 0,
                         marginal_likelihood(Theta(FALSE, p), X, y, K))
    /\ UNCHANGED <<rng, held, optvars, gridvars>>

\* one pass of the training loop body on given hyperparameters: the value
\* is evaluated, then the update is made
IterationCall ==
    /\ last = NoCall
    /\ \E p \in CallParams, g \in StepGradients, rate \in StepRates, K \in CallGrams(TrainN) :
         LET r == marginal_likelihood(Theta(FALSE, p), TrainX, TrainY, K) IN
         last' = Call("iteration", <<p, g, rate, K>>, 0,
                      IF r.err # "none" THEN r
                      ELSE Returned(r.attempts, r.kernels,
                                    <<r.result, gradient_update(p, g, rate)>>))
    /\ UNCHANGED <<rng, held, optvars, gridvars>>

\* samples, mean, cov = sample_f_prior(params, rbf_kernel, Xt): the draws
\* come from, and advance, the process-wide random state
SamplePriorCall ==
    /\ last = NoCall
    /\ \E p \in CallParams, Xt \in QuerySets, N \in SampleCounts :
         LET r == sample_f_prior(Theta(FALSE, p), Xt, N, rng) IN
         /\ last' = Call("sample", <<p, Xt, N>>, rng, r)
         /\ rng' = IF r.err = "none" THEN AdvanceBy(rng, N * Len(Xt)) ELSE rng
    /\ UNCHANGED <<held, optvars, gridvars>>

\* np.random.seed(...)
SeedCall ==
    /\ last = NoCall
    /\ \E k \in Seeds :
         /\ rng' = np_random_seed(k)
         /\ last' = Call("seed", <<k>>, 0, Returned(0, 0, NoResult))
    /\ UNCHANGED <<held, optvars, gridvars>>

\* plot_samples(x, samples, N): idx = np.random.randint(0, samples.shape[0], N)
PlotSamplesCall ==
    /\ last = NoCall
    /\ \E N \in SampleCounts :
         /\ rng' = AdvanceBy(rng, N)
         /\ last' = Call("plot_samples", <<N>>, rng, Returned(0, 0, NoResult))
    /\ UNCHANGED <<held, optvars, gridvars>>

\* the caller binds what the last call returned to names it keeps
\* (samples, mean, cov = ...) and goes on to its next statement
Keep ==
    /\ last.op \in {"kernel", "predict", "likelihood", "iteration", "sample"}
    /\ held' = last
    /\ last' = NoCall
    /\ UNCHANGED <<rng, optvars, gridvars>>

\* the statement has run and its result is not bound to a name: the next
\* call is made from a fresh statement
CellDone ==
    /\ last # NoCall
    /\ last' = NoCall
    /\ UNCHANGED <<rng, held, optvars, gridvars>>

IdleOptimizer ==
    /\ pc = "idle" /\ transformed = FALSE /\ learning_rate = 0
    /\ params = <<>> /\ marginals = <<>> /\ iteration = 0 /\ error = "none"

InitCalls ==
    /\ rng = np_random_seed(3424121)
    /\ last = NoCall
    /\ held = NoCall
    /\ IdleOptimizer
    /\ IdleGrid

NextCalls ==
    \/ KernelCall \/ PredictCall \/ LikelihoodCall \/ IterationCall
    \/ SamplePriorCall \/ SeedCall \/ PlotSamplesCall \/ Keep \/ CellDone

SpecCalls == InitCalls /\ [][NextCalls]_vars

--------------------------------------------------------------------------
(* The numerical components called on their own: the squared distances, the
   kernel matrix and the Gram matrix, on inputs where rounding shows *)

Coordinates == {0, 1, 5, 6}
PlanarCoordinates == {0, 5, 6}

\* arrays of one or two points
Arrays(points) == {<<a>> : a \in points} \cup {<<a, b>> : a \in points, b \in points}

Columns == Arrays({<<a>> : a \in Coordinates})               \* shape (N, 1)
Planar == Arrays(PlanarCoordinates \X PlanarCoordinates)     \* shape (N, 2)
Scalars == Arrays(Coordinates)

\* hyperparameter mappings: valid ones, a zero lengthscale, a negative variance
KernelParams ==
    [lengthscale : {1, 2}, variance : {1, 3}] \cup CallParams

CdistCall ==
    /\ last = NoCall
    /\ \E S \in {Columns, Planar} : \E A \in S, B \in S :
         last' = Call("cdist", <<A, B>>, 0, Returned(0, 0, cdist(A, B)))
    /\ UNCHANGED <<rng, held, optvars, gridvars>>

\* rbf_kernel(params, X1, X2) on point sets apart enough for rounding to show
KernelMatrixCall ==
    /\ last = NoCall
    /\ \E p \in KernelParams, X1 \in Scalars, X2 \in Scalars :
         last' = Call("kernel", <<p, X1, X2>>, 0, rbf_kernel(Theta(FALSE, p), X1, X2))
    /\ UNCHANGED <<rng, held, optvars, gridvars>>

\* Gram matrices offered to predict: those of CallGrams and, for two
\* training points, two that make the posterior variance come out negative
\* (by less than Epsilon, by more)
PosteriorGrams(n) ==
    IF n = 2 THEN CallGrams(n) \cup {<<<<3, 0>>, <<0, 1>>>>, <<<<1, 0>>, <<0, 1>>>>}
    ELSE CallGrams(n)

\* fmean, fcov = predict_f_posterior(params, rbf_kernel, X, y, Xt)
PosteriorCall ==
    /\ last = NoCall
    /\ \E p \in KernelParams, X \in PointSets, Xt \in QuerySets :
         \E y \in [1..Len(X) -> {0, 1}] \cup {Targets(Len(X) + 1)},
            K \in PosteriorGrams(Len(X)) :
            last' = Call("predict", <<p, X, y, Xt, K>>, 0,
                         predict_f_posterior(Theta(FALSE, p), X, y, Xt, K))
    /\ UNCHANGED <<rng, held, optvars, gridvars>>

\* mappings with the same keys handed to gradient_update: both
\* hyperparameters, or the lengthscale alone
KeySets == {Keys, {"lengthscale"}}

\* updated_params = gradient_update(params, gradients, learning_rate); the
\* caller's params and gradients are carried through the call as tree_map,
\* which builds a new mapping, leaves them
GradientUpdateCall ==
    /\ last = NoCall
    /\ \E ks \in KeySets :
         \E p \in [ks -> {-1, 1, 2}], g \in [ks -> GradientComponents],
            rate \in LearningRates :
            last' = Call("gradient_update", <<p, g, rate>>, 0,
                         Returned(0, 0, [updated |-> gradient_update(p, g, rate),
                                         params |-> p, gradients |-> g]))
    /\ UNCHANGED <<rng, held, optvars, gridvars>>

\* the Gram matrix K_y of a point set, built once the kernel has accepted
\* the hyperparameters
GramCall ==
    /\ last = NoCall
    /\ \E p \in KernelParams, X \in Scalars :
         LET k == rbf_kernel(Theta(FALSE, p), X, X) IN
         last' = Call("gram", <<p, X>>, 0,
                      IF k.err # "none" THEN k
                      ELSE Returned(0, 1, K_y(Theta(FALSE, p), column(X))))
    /\ UNCHANGED <<rng, held, optvars, gridvars>>

InitNumeric ==
    /\ rng = 0
    /\ last = NoCall
    /\ held = NoCall
    /\ IdleOptimizer
    /\ IdleGrid

NextNumeric ==
    \/ CdistCall \/ KernelMatrixCall \/ GramCall \/ PosteriorCall
    \/ GradientUpdateCall \/ CellDone

SpecNumeric == InitNumeric /\ [][NextNumeric]_vars

--------------------------------------------------------------------------
(* Grid search over lengthscale x variance.  The notebook fills the table
   row by row; here the cells are evaluated, and their results put into the
   table, in any order. *)

\* np.linspace(lo, hi, n), n >= 2, on integers: both ends are hit exactly
linspace(lo, hi, n) == [i \in 1..n |-> lo + ((i - 1) * (hi - lo)) \div (n - 1)]

variances == <<1, 20>>                    \* the variance axis, cut to its two ends
lengthscales == linspace(1, 20, NumLengthscales)
\* params = {"lengthscale": 1.0, "variance": 1.0}  # Initial guess
InitialGuess == [lengthscale |-> 1, variance |-> 1]
\* _params = {"lengthscale": lengthscale, "variance": variance} at cell (i, j)
CellParams(c) == [lengthscale |-> lengthscales[c[1] + 1], variance |-> variances[c[2] + 1]]
NumVariances == Len(variances)            \* grid columns, len(variances)
Rows == 0..(NumLengthscales - 1)
Cols == 0..(NumVariances - 1)
Cells == Rows \X Cols
Shape == <<NumLengthscales, NumVariances>>

\* what evaluating the marginal likelihood at a cell gives: a value, or the
\* evaluation raises
LLValues == {0, 1}
LLOutcomes ==
    {[err |-> "none", value |-> v] : v \in LLValues}
        \cup {[err |-> "NumericalError", value |-> 0]}

\* a slot of the table: not yet written (as np.empty leaves it), or a value
Uninitialized == [written |-> FALSE, value |-> 0]
Written(v) == [written |-> TRUE, value |-> v]

\* position of cell (i, j) in the flattened, row-major table
ravel(c, shape) == c[1] * shape[2] + c[2]

\* np.unravel_index(k, shape)
unravel_index(k, shape) == <<k \div shape[2], k % shape[2]>>

\* the last row of the table left out of the search for the maximum
argmax_SkipLastRow(table, shape) ==
    CHOOSE k \in 0..((shape[1] - 1) * shape[2] - 1) :
        LET c == unravel_index(k, shape) IN
        /\ \A d \in DOMAIN table :
              d[1] < shape[1] - 1 => table[d].value <= table[c].value
        /\ \A d \in DOMAIN table :
              (d[1] < shape[1] - 1 /\ table[d].value = table[c].value)
                  => ravel(d, shape) >= k

\* table.argmax(): the first position, in row-major order, of the maximum
argmax(table, shape) ==
    CHOOSE k \in 0..(shape[1] * shape[2] - 1) :
        LET c == unravel_index(k, shape) IN
        /\ \A d \in DOMAIN table : table[d].value <= table[c].value
        /\ \A d \in DOMAIN table :
              table[d].value = table[c].value => ravel(d, shape) >= k

\* the result put into the first slot still free, in order of arrival
StoreCell_NextFree(table, c, value) ==
    LET free == {d \in DOMAIN table : table[d] = Uninitialized}
        first == CHOOSE d \in free : \A e \in free : ravel(d, Shape) <= ravel(e, Shape)
    IN  [table EXCEPT ![first] = Written(value)]

\* marginal_ll[i, j] = ...
StoreCell(table, c, value) == [table EXCEPT ![c] = Written(value)]

\* _params = {"lengthscale": lengthscale, "variance": variance} and the
\* marginal likelihood evaluated at it; a raising evaluation ends the search
EvaluateCell ==
    /\ grid_pc = "filling"
    /\ \E c \in Cells :
         /\ marginal_ll[c] = Uninitialized
         /\ c \notin inflight
         /\ IF surface[c].err # "none"
            THEN grid_pc' = "aborted" /\ UNCHANGED inflight
            ELSE inflight' = inflight \cup {c} /\ UNCHANGED grid_pc
    /\ UNCHANGED <<surface, marginal_ll, best, optvars, callvars>>

\* the result of an evaluated cell is assigned to its slot of the table
CollectCell ==
    /\ grid_pc = "filling"
    /\ \E c \in inflight :
         /\ marginal_ll' = StoreCell(marginal_ll, c, surface[c].value)
         /\ inflight' = inflight \ {c}
    /\ grid_pc' = IF \A d \in Cells : marginal_ll'[d] # Uninitialized
                  THEN "filled" ELSE "filling"
    /\ UNCHANGED <<surface, best, optvars, callvars>>

\* best = np.unravel_index(marginal_ll.argmax(), marginal_ll.shape)
SelectBest ==
    /\ grid_pc = "filled"
    /\ best' = unravel_index(argmax(marginal_ll, Shape), Shape)
    /\ grid_pc' = "selected"
    /\ UNCHANGED <<surface, marginal_ll, inflight, optvars, callvars>>

InitGrid ==
    /\ surface \in [Cells -> LLOutcomes]
    /\ marginal_ll = [c \in Cells |-> Uninitialized]
    /\ inflight = {}
    /\ best = <<>>
    /\ grid_pc = "filling"
    /\ IdleOptimizer
    /\ IdleCalls

NextGrid == EvaluateCell \/ CollectCell \/ SelectBest

SpecGrid == InitGrid /\ [][NextGrid]_vars

\* the notebook's loop: for i ... for j ... marginal_ll[i, j] = ..., from the
\* cell at flat position k on
RECURSIVE SequentialFill(_, _)
SequentialFill(table, k) ==
    IF k = NumLengthscales * NumVariances THEN table
    ELSE LET c == unravel_index(k, Shape) IN
         SequentialFill([table EXCEPT ![c] = Written(surface[c].value)], k + 1)

SequentialTable == SequentialFill([c \in Cells |-> Uninitialized], 0)

\* C10: whatever the order in which the cells are evaluated and their
\* results put into the table, the filled table and the selected best cell
\* are those of the sequential row-by-row loop.
C10_OrderIndependent ==
    /\ grid_pc \in {"filled", "selected"} => marginal_ll = SequentialTable
    /\ grid_pc = "selected" =>
          best = unravel_index(argmax(SequentialTable, Shape), Shape)

\* C10 witness: the best cell was selected from a table with a tie for the
\* maximum, and it is not the first cell
C10_Witness ==
    /\ grid_pc = "selected"
    /\ best # <<0, 0>>
    /\ \E c \in Cells : c # best /\ marginal_ll[c] = marginal_ll[best]
    /\ \E c \in Cells : marginal_ll[c].value < marginal_ll[best].value

\* C11: grid search selects only once every cell has been evaluated and
\* stored; the selected index pair holds the maximum log marginal likelihood
\* over all cells, and that maximum is at least the value at the initial
\* guess (lengthscale 1, variance 1), which is one of the cells.
C11_BestIsMaximum ==
    /\ \E c0 \in Cells : CellParams(c0) = InitialGuess
    /\ best # <<>> =>
          /\ inflight = {}
          /\ \A c \in Cells :
                /\ marginal_ll[c] = Written(surface[c].value)
                /\ surface[c].value <= surface[best].value
          /\ \A c0 \in Cells :
                CellParams(c0) = InitialGuess =>
                    marginal_ll[best].value >= surface[c0].value

\* C11 witness: the selected cell lies in the last row and is strictly
\* better than the cell of the initial guess
C11_Witness ==
    /\ grid_pc = "selected"
    /\ best[1] = NumLengthscales - 1
    /\ CellParams(<<0, 0>>) = InitialGuess
    /\ marginal_ll[best].value > marginal_ll[<<0, 0>>].value

--------------------------------------------------------------------------
(* Claims about the component calls *)

Components == {"kernel", "sample", "predict", "likelihood", "iteration"}
PureComponents == Components \ {"sample"}
WithDataset == {"predict", "likelihood"}

ArgParams(c) == c.args[1]
ArgX(c) == c.args[2]
ArgY(c) == c.args[3]
ArgGram(c) == c.args[Len(c.args)]
NonPositive(p) == \E k \in DOMAIN p : p[k] <= 0
Mismatched(c) == c.op \in WithDataset /\ Len(ArgY(c)) # Len(ArgX(c))
\* the matrix whose factor the returned result was computed from
FactoredIn(c) == c.out.result[Len(c.out.result)]

\* the covariance a prediction computes from the factor F, before its
\* diagonal is looked at
RawCov(c, F) ==
    LET theta == Theta(FALSE, ArgParams(c))
        Xt == column(c.args[4])
    IN  f_cov(rbf_values(theta, Xt, Xt), rbf_values(theta, Xt, column(ArgX(c))), F)

\* the call went on with the factor of F: it returned a result computed from
\* it, or (predict only) ended on the covariance it computed from it
GoesOnWith(c, F) ==
    \/ c.out.err = "none" /\ FactoredIn(c) = F
    \/ /\ c.op = "predict"
       /\ c.out.err = "NumericalError"
       /\ \E i \in 1..Len(c.args[4]) : TooNegative(RawCov(c, F)[i][i])

\* C5: when the factorization of the Gram matrix fails, predict and
\* log_marginal_likelihood retry exactly once on the jittered matrix; the call
\* goes on with the jittered factor if the retry succeeds and ends with
\* NumericalError and no result if it fails too; never more than two attempts.
C5_OneJitterRetry ==
    (last.op \in WithDataset /\ ~Mismatched(last) /\ ~NonPositive(ArgParams(last))) =>
        LET K == ArgGram(last)
            out == last.out
        IN  /\ out.attempts \in {1, 2}
            /\ IsPositiveDefinite(K) =>
                  (out.attempts = 1 /\ GoesOnWith(last, K))
            /\ (~IsPositiveDefinite(K) /\ IsPositiveDefinite(AddJitter(K))) =>
                  (out.attempts = 2 /\ GoesOnWith(last, AddJitter(K)))
            /\ (~IsPositiveDefinite(K) /\ ~IsPositiveDefinite(AddJitter(K))) =>
                  (out.attempts = 2 /\ out.err = "NumericalError" /\ out.result = NoResult)

\* C5 witness: a prediction whose first factorization failed and whose
\* jittered retry succeeded
C5_Witness ==
    /\ last.op = "predict"
    /\ ~IsPositiveDefinite(ArgGram(last))
    /\ last.out.attempts = 2
    /\ last.out.err = "none"

C7_MismatchRejectedAtEntry ==
    Mismatched(last) =>
        /\ last.out.err = "DimensionMismatchError"
        /\ last.out.kernels = 0
        /\ last.out.attempts = 0
        /\ last.out.result = NoResult

\* C7 witness: a marginal-likelihood call with one target too many, and a
\* non-positive hyperparameter as well, was rejected for the mismatch
C7_Witness ==
    /\ last.op = "likelihood"
    /\ Len(ArgY(last)) = Len(ArgX(last)) + 1
    /\ NonPositive(ArgParams(last))
    /\ last.out.err = "DimensionMismatchError"

\* two invocations of one of the given components on equal arguments handed
\* back the same
SameInputsSameResult(ops) ==
    (held.op \in ops /\ last.op = held.op /\ last.args = held.args) =>
        last.out = held.out

--------------------------------------------------------------------------
(* Claims about the numerical components *)

Symmetric(M) == \A i \in 1..Len(M), j \in 1..Len(M) : M[i][j] = M[j][i]
Returns(op) == last.op = op /\ last.out.err = "none"

\* C13: for any point set and valid hyperparameters the kernel matrix of X
\* with itself and the Gram matrix K_y are symmetric, with every diagonal
\* entry non-negative; cdist(X, X) is symmetric.
C13_GramSymmetric ==
    /\ (Returns("cdist") /\ last.args[1] = last.args[2]) =>
            Symmetric(last.out.result)
    /\ (Returns("kernel") /\ last.args[2] = last.args[3]) =>
            /\ Symmetric(last.out.result)
            /\ \A i \in 1..Len(last.out.result) : ~FLess(last.out.result[i][i], Zero)
    /\ Returns("gram") =>
            /\ Symmetric(last.out.result)
            /\ \A i \in 1..Len(last.out.result) : ~FLess(last.out.result[i][i], Zero)

\* C13 witness: the Gram matrix of two distinct points whose squared
\* distance is rounded, with entries off the diagonal differing from those
\* on it
C13_Witness ==
    /\ Returns("gram")
    /\ Len(last.args[2]) = 2
    /\ cdist(column(last.args[2]), column(last.args[2]))[1][2] < 0
    /\ last.out.result[1][2] # last.out.result[1][1]

\* |p|^2 + |q|^2 without rounding: the size of the terms the expansion adds
\* and subtracts
Magnitude(p, q) ==
    SquaredDifferences(p, [k \in 1..Len(p) |-> 0], Len(p))
        + SquaredDifferences(q, [k \in 1..Len(q) |-> 0], Len(q))

\* the entry is the sum of squared coordinate differences up to the rounding
\* of the operations of the expansion (each within 2^-MantissaBits of its
\* operands' size)
WithinRounding(d, p, q) ==
    Abs(d - SquaredDifferences(p, q, Len(p))) * Pow2(MantissaBits)
        <= 4 * Magnitude(p, q)

\* cdist(A, B) is an M x N matrix of the expansion's values
ExpansionShape ==
    Returns("cdist") =>
        LET A == last.args[1]
            B == last.args[2]
            D == last.out.result
        IN  /\ Len(D) = Len(A)
            /\ \A i \in 1..Len(A) :
                  /\ Len(D[i]) = Len(B)
                  /\ \A j \in 1..Len(B) : WithinRounding(D[i][j], A[i], B[j])

\* C14 as stated: cdist(A, B) is an M x N matrix; entry (i, j) is the sum of
\* the squared coordinate differences of A_i and B_j, computed by the
\* expansion, and no entry is negative.
C14_FlooredSquaredDistances ==
    /\ ExpansionShape
    /\ Returns("cdist") =>
          \A i \in 1..Len(last.out.result) :
             \A j \in 1..Len(last.out.result[i]) : last.out.result[i][j] >= 0

\* C15: the kernel matrix of a point set with itself has the variance
\* hyperparameter in every diagonal entry; with lengthscale 1, variance 1
\* and X = [[0]] it is [[1]].
C15_DiagonalIsVariance ==
    (Returns("kernel") /\ last.args[2] = last.args[3]) =>
        /\ \A i \in 1..Len(last.out.result) :
              last.out.result[i][i] = <<last.args[1].variance, 1>>
        /\ (last.args[1] = InitialGuess /\ last.args[2] = <<0>>) =>
              last.out.result = <<<<(<<1, 1>>)>>>>

\* C15 witness: the kernel matrix of two distinct points with variance 3,
\* smaller off the diagonal than on it
C15_Witness ==
    /\ Returns("kernel")
    /\ last.args[1].variance = 3
    /\ last.args[2] = last.args[3]
    /\ Len(last.args[2]) = 2
    /\ FLess(last.out.result[1][2], last.out.result[1][1])

\* C12: with zero training points predict returns the prior, whatever the
\* query set and the valid hyperparameters: the empty Gram matrix factorizes
\* at the first attempt, the mean is the zero vector of length m and the
\* covariance is kernel(query, query), entry for entry.
C12_EmptyTrainingIsPrior ==
    (last.op = "predict" /\ Len(ArgX(last)) = 0 /\ Len(ArgY(last)) = 0
        /\ ~NonPositive(ArgParams(last))) =>
        LET Xt == last.args[4] IN
        /\ last.out.err = "none"
        /\ last.out.attempts = 1
        /\ last.out.result[2] = [j \in 1..Len(Xt) |-> Zero]
        /\ last.out.result[3] = rbf_kernel(Theta(FALSE, ArgParams(last)), Xt, Xt).result

\* C12 witness: a prediction without training points at two query points,
\* with variance 3 and a covariance that is not constant
C12_Witness ==
    /\ Returns("predict")
    /\ ArgX(last) = <<>>
    /\ Len(last.args[4]) = 2
    /\ ArgParams(last).variance = 3
    /\ Len(last.out.result[2]) = 2
    /\ last.out.result[3][1][1] = <<3, 1>>

\* C18: predict never returns a covariance with a negative diagonal entry: a
\* computed entry that is negative by less than epsilon is returned as zero,
\* and one negative by epsilon or more makes the call end with NumericalError
\* and no result; a non-negative entry is returned as computed.
C18_DiagonalClamped ==
    /\ Returns("predict") =>
          \A i \in 1..Len(last.out.result[3]) : ~FLess(last.out.result[3][i][i], Zero)
    /\ (last.op = "predict" /\ Precheck(Theta(FALSE, ArgParams(last)), ArgX(last), ArgY(last)) = "none"
           /\ factorize(ArgGram(last)).ok) =>
          LET raw == RawCov(last, factorize(ArgGram(last)).factored)
              m == Len(last.args[4])
          IN  IF \E i \in 1..m : TooNegative(raw[i][i])
              THEN last.out.err = "NumericalError" /\ last.out.result = NoResult
              ELSE /\ last.out.err = "none"
                   /\ \A i \in 1..m :
                         last.out.result[3][i][i] =
                             IF FLess(raw[i][i], Zero) THEN Zero ELSE raw[i][i]

\* C18 witness: a prediction returned a zero variance where the computed
\* one was negative by less than epsilon
C18_Witness ==
    /\ Returns("predict")
    /\ Len(ArgX(last)) = 2
    /\ FLess(RawCov(last, factorize(ArgGram(last)).factored)[1][1], Zero)
    /\ last.out.result[3][1][1] = Zero

\* a prediction ended with NumericalError on a variance negative by epsilon
\* or more, its Gram matrix having factorized
C18_FailureReached ==
    /\ last.op = "predict"
    /\ last.out.err = "NumericalError"
    /\ factorize(ArgGram(last)).ok
    /\ last.out.attempts = 1

--------------------------------------------------------------------------
(* Claims about the training loop *)

Terminal == {"Exhausted", "Aborted"}

C2_AbortOnError ==
    [][error' # "none" =>
          /\ pc' = "Aborted"
          /\ params' = params
          /\ marginals' = marginals
          /\ iteration' = iteration
          /\ (error # "none" => error' = error)]_vars

\* C2 witness: a pass failed after at least one pass had succeeded and with
\* budget left
C2_Witness ==
    /\ error \in {"NumericalError", "ConfigurationError"}
    /\ pc = "Aborted"
    /\ iteration >= 1
    /\ iteration < Budget

\* passes still to run, plus one for the step into a terminal state
Remaining == (Budget - iteration) + (IF pc \in Terminal THEN 0 ELSE 1)

\* C3: an error-free run goes Initialized -> Iterating -> Exhausted and is
\* terminal exactly when Budget passes are done, never earlier.  It always
\* terminates: before a terminal state a step is always possible and every
\* step lowers Remaining, which is never negative.  Once terminal, nothing
\* changes.
C3_ExactBudget ==
    /\ [](pc = "Exhausted" => (iteration = Budget /\ error = "none"))
    /\ []((error = "none" /\ iteration < Budget) => pc \in {"Initialized", "Iterating"})
    /\ [](Remaining >= 0 /\ (pc \notin Terminal => ENABLED Next))
    /\ [][/\ (pc = "Initialized" => pc' \in {"Iterating", "Aborted"})
          /\ (pc = "Iterating" => pc' \in {"Iterating", "Exhausted", "Aborted"})
          /\ (pc \notin Terminal => Remaining' < Remaining)
          /\ (pc \in Terminal => UNCHANGED optvars)]_vars

\* C3 witness: the run is terminal after exactly Budget passes
C3_Witness ==
    /\ pc = "Exhausted"
    /\ iteration = Budget
    /\ Len(marginals) = Budget

AppendOnly ==
    /\ Len(marginals') >= Len(marginals)
    /\ SubSeq(marginals', 1, Len(marginals)) = marginals

C17_RawStepUnguarded ==
    [][(~transformed /\ marginals' # marginals) =>
          \A k \in Keys :
             (params[k] > 0 /\ learning_rate * last'.gradients[k] <= -params[k])
                 => params'[k] <= 0]_vars

\* C17 witness: a raw-space run from positive hyperparameters is about to
\* evaluate the marginal likelihood with a non-positive lengthscale
C17_Witness ==
    /\ ~transformed
    /\ pc = "Iterating"
    /\ range_has_next(iteration)
    /\ last.at.lengthscale > 0
    /\ params.lengthscale <= 0

--------------------------------------------------------------------------
(* Claims about the update step *)

==========================================================================
